---- MODULE Spec2Model ----
(***************************************************************************)
(* Model of the file-backed model repository, utils/yaml_manager.py        *)
(* (class YAMLManager): a directory of YAML documents, each holding a      *)
(* `models` list of named records, with create / update / delete by name.  *)
(*                                                                         *)
(* A Python dict is modelled as an ordered mapping: a sequence of          *)
(* <<key, value>> pairs with pairwise distinct keys, in insertion order.   *)
(* A file is a record [kind, data]: kind "absent" (no such path), "null"   *)
(* (a file whose YAML content is empty) or "mapping" (a file whose YAML    *)
(* content is the mapping `data`).                                         *)
(***************************************************************************)
EXTENDS Integers, Sequences, FiniteSets, TLC

VARIABLES disk, last, pc, req, local, lastWriter

vars == <<disk, last, pc, req, local, lastWriter>>

(***************************************************************************)
(* Bounds and input sets                                                   *)
(***************************************************************************)
\* cap on the number of records held by the whole directory
MaxRecords == 2

\* model names passed as model_name
Names == {"m1", "m2"}

\* the two concurrent callers of the interleaved specification
Callers == {1, 2}

\* the value of d.get(key) for an absent key
None == "None"

\* a path is <<stem, suffix>>; the default file_name (None) is the empty tuple
NoFileName == <<>>

\* an explicit file_name that is not any model's default file
SharedFile == <<"all", ".yaml">>

\* config / new_config arguments (ordered mappings); the last one carries a
\* `name` key of its own
Configs ==
    { <<>>,
      << <<"a", "1">> >>,
      << <<"b", "2">>, <<"name", "m2">> >> }

(***************************************************************************)
(* Python dict operations on ordered mappings                              *)
(***************************************************************************)
\* `key in d`
HasKey(d, key) == \E i \in 1..Len(d) : d[i][1] = key

\* position of key in d (key must be present)
KeyIndex(d, key) == CHOOSE i \in 1..Len(d) : d[i][1] = key

\* d[key]
Item(d, key) == d[KeyIndex(d, key)][2]

\* d.get(key): None when the key is absent
Get(d, key) == IF HasKey(d, key) THEN Item(d, key) ELSE None

\* d[key] = value: an existing key keeps its position, a new key goes last
SetItem(d, key, value) ==
    IF HasKey(d, key)
    THEN [d EXCEPT ![KeyIndex(d, key)] = <<key, value>>]
    ELSE Append(d, <<key, value>>)

\* {**d, **e}: the keys of e are set in order on d
RECURSIVE Unpack(_, _)
Unpack(d, e) ==
    IF e = <<>> THEN d
    ELSE Unpack(SetItem(d, Head(e)[1], Head(e)[2]), Tail(e))

\* {"name": model_name, **config}
NewRecord(model_name, config) == Unpack(<< <<"name", model_name>> >>, config)

\* a filter that stops at the first record of that name
RECURSIVE FilterOut_first(_, _)
FilterOut_first(models, model_name) ==
    IF models = <<>> THEN <<>>
    ELSE IF Get(Head(models), "name") # model_name
         THEN <<Head(models)>> \o FilterOut_first(Tail(models), model_name)
         ELSE Tail(models)

\* [m for m in models if m.get("name") != model_name]
RECURSIVE FilterOut(_, _)
FilterOut(models, model_name) ==
    IF models = <<>> THEN <<>>
    ELSE IF Get(Head(models), "name") # model_name
         THEN <<Head(models)>> \o FilterOut(Tail(models), model_name)
         ELSE FilterOut(Tail(models), model_name)

(***************************************************************************)
(* Files                                                                   *)
(***************************************************************************)
NoFile == [kind |-> "absent", data |-> <<>>]

NullFile == [kind |-> "null", data |-> <<>>]

MappingFile(data) == [kind |-> "mapping", data |-> data]

\* f"{model_name}.yml"
DefaultFileName(model_name) == <<model_name, ".yml">>

Paths == {DefaultFileName(n) : n \in Names} \cup {SharedFile}

FileNames == {NoFileName, SharedFile}

\* load_yaml: a missing file and an empty (falsy) document both give {}.
\* Every file of the model parses; the yaml.YAMLError branch is not taken.
load_yaml(file) ==
    IF file.kind = "absent" THEN <<>>
    ELSE IF file.kind = "null" \/ file.data = <<>> THEN <<>>
    ELSE file.data

\* save_yaml: the file now holds the dumped mapping, key order kept
save_yaml(data) == MappingFile(data)

\* get_all_yaml_files: glob("*.yml") + glob("*.yaml") over existing paths
get_all_yaml_files(d) ==
    {p \in Paths : d[p].kind # "absent" /\ p[2] = ".yml"}
    \cup {p \in Paths : d[p].kind # "absent" /\ p[2] = ".yaml"}

(***************************************************************************)
(* The handlers, from the loaded mapping to what they do to the file.      *)
(* An effect is [outcome, action, data]: action "save" writes data to the  *)
(* path, "unlink" removes the path, "none" touches nothing (the handler    *)
(* raised before any write).                                               *)
(***************************************************************************)
Ok == "ok"

\* ValueError("Model ... already exists in ...")  (DuplicateModelError)
AlreadyExists == "ValueError: already exists"

\* ValueError("No models found in ...")           (NotFoundError)
NoModelsFound == "ValueError: No models found"

\* ValueError("Model ... not found in ...")       (NotFoundError)
ModelNotFound == "ValueError: not found"

\* raised by Path.unlink() on a path that does not exist
FileNotFoundError == "FileNotFoundError"

Raise(outcome) == [outcome |-> outcome, action |-> "none", data |-> <<>>]

Save(data) == [outcome |-> Ok, action |-> "save", data |-> data]

Unlink == [outcome |-> Ok, action |-> "unlink", data |-> <<>>]

\* some record of models has m.get("name") == model_name
Named(models, model_name) ==
    \E i \in 1..Len(models) : Get(models[i], "name") = model_name

\* index of the first record with m.get("name") == model_name
FirstNamed(models, model_name) ==
    CHOOSE i \in 1..Len(models) :
        /\ Get(models[i], "name") = model_name
        /\ \A j \in 1..(i - 1) : Get(models[j], "name") # model_name

\* create_model without the scan for an existing record of that name
create_model_unchecked(existing_config, model_name, config) ==
    LET with_models == IF ~HasKey(existing_config, "models")
                       THEN SetItem(existing_config, "models", <<>>)
                       ELSE existing_config
    IN  Save(SetItem(with_models, "models",
                     Append(Item(with_models, "models"),
                            NewRecord(model_name, config))))

\* create_model, after existing_config = load_yaml(file_path)
create_model(existing_config, model_name, config) ==
    LET with_models == IF ~HasKey(existing_config, "models")
                       THEN SetItem(existing_config, "models", <<>>)
                       ELSE existing_config
        models == Item(with_models, "models")
    IN  IF Named(models, model_name)
        THEN Raise(AlreadyExists)
        ELSE Save(SetItem(with_models, "models",
                          Append(models, NewRecord(model_name, config))))

\* update_model that, like create_model, first gives the document a `models`
\* list and writes it back before it reports the missing collection
update_model_ensure(config, model_name, new_config) ==
    IF ~HasKey(config, "models")
    THEN [outcome |-> NoModelsFound, action |-> "save",
          data |-> SetItem(config, "models", <<>>)]
    ELSE LET models == Item(config, "models")
         IN  IF Named(models, model_name)
             THEN Save(SetItem(config, "models",
                     [models EXCEPT ![FirstNamed(models, model_name)] =
                                        NewRecord(model_name, new_config)]))
             ELSE Raise(ModelNotFound)

\* update_model, after config = load_yaml(file_path)
update_model(config, model_name, new_config) ==
    IF ~HasKey(config, "models") THEN Raise(NoModelsFound)
    ELSE LET models == Item(config, "models")
         IN  IF Named(models, model_name)
             THEN Save(SetItem(config, "models",
                     [models EXCEPT ![FirstNamed(models, model_name)] =
                                        NewRecord(model_name, new_config)]))
             ELSE Raise(ModelNotFound)

\* delete_model that saves the filtered document even when it is empty
delete_model_keep(config, model_name) ==
    IF ~HasKey(config, "models") THEN Raise(NoModelsFound)
    ELSE Save(SetItem(config, "models",
                      FilterOut(Item(config, "models"), model_name)))

\* delete_model, after config = load_yaml(file_path)
delete_model(config, model_name) ==
    IF ~HasKey(config, "models") THEN Raise(NoModelsFound)
    ELSE LET models == FilterOut(Item(config, "models"), model_name)
         IN  IF models = <<>>
             THEN Unlink
             ELSE Save(SetItem(config, "models", models))

\* an unlink that truncates the file instead of removing the path
Written_truncate(file, eff) ==
    CASE eff.action = "save"   -> save_yaml(eff.data)
      [] eff.action = "unlink" -> NullFile
      [] OTHER                 -> file

\* the file at the path once the effect has been carried out
Written(file, eff) ==
    CASE eff.action = "save"   -> save_yaml(eff.data)
      [] eff.action = "unlink" -> NoFile
      [] OTHER                 -> file

\* what the caller sees: unlink of a missing path raises
Outcome(file, eff) ==
    IF eff.action = "unlink" /\ file.kind = "absent"
    THEN FileNotFoundError
    ELSE eff.outcome

\* file_path = self.yaml_dir / (file_name or f"{model_name}.yml")
ResolvePath(model_name, file_name) ==
    IF file_name = NoFileName THEN DefaultFileName(model_name) ELSE file_name

(***************************************************************************)
(* State                                                                   *)
(*   disk       : path -> file                                             *)
(*   last       : the most recent completed call (one caller at a time):   *)
(*                operation, arguments, the file as it was before the      *)
(*                call, and the outcome                                    *)
(*   pc, req, local, lastWriter : the two interleaved callers              *)
(***************************************************************************)
Records(file) ==
    IF HasKey(load_yaml(file), "models")
    THEN Item(load_yaml(file), "models")
    ELSE <<>>

RECURSIVE SumRecords(_, _)
SumRecords(d, ps) ==
    IF ps = {} THEN 0
    ELSE LET p == CHOOSE q \in ps : TRUE
         IN  Len(Records(d[p])) + SumRecords(d, ps \ {p})

TotalRecords(d) == SumRecords(d, Paths)

NoCall ==
    [op |-> "none", path |-> SharedFile, name |-> None, config |-> <<>>,
     before |-> NoFile, outcome |-> Ok]

Call(op, path, name, config, before, outcome) ==
    [op |-> op, path |-> path, name |-> name, config |-> config,
     before |-> before, outcome |-> outcome]

EmptyDir == [p \in Paths |-> NoFile]

IdleCallers ==
    /\ pc = [c \in Callers |-> "idle"]
    /\ req = [c \in Callers |-> NoCall]
    /\ local = [c \in Callers |-> <<>>]
    /\ lastWriter = 0

\* YAMLManager(yaml_dir) on a directory that holds no document
Init ==
    /\ disk = EmptyDir
    /\ last = NoCall
    /\ IdleCallers

(***************************************************************************)
(* One caller at a time: each call runs from load to save in one step      *)
(***************************************************************************)
CreateModel(model_name, config, file_name) ==
    LET path == ResolvePath(model_name, file_name)
        eff  == create_model(load_yaml(disk[path]), model_name, config)
    IN  /\ eff.action = "save" => TotalRecords(disk) < MaxRecords
        /\ disk' = [disk EXCEPT ![path] = Written(disk[path], eff)]
        /\ last' = Call("create", path, model_name, config, disk[path],
                        Outcome(disk[path], eff))
        /\ UNCHANGED <<pc, req, local, lastWriter>>

UpdateModel(path, model_name, new_config) ==
    LET eff == update_model(load_yaml(disk[path]), model_name, new_config)
    IN  /\ disk' = [disk EXCEPT ![path] = Written(disk[path], eff)]
        /\ last' = Call("update", path, model_name, new_config, disk[path],
                        Outcome(disk[path], eff))
        /\ UNCHANGED <<pc, req, local, lastWriter>>

DeleteModel(path, model_name) ==
    LET eff == delete_model(load_yaml(disk[path]), model_name)
    IN  /\ disk' = [disk EXCEPT ![path] = Written(disk[path], eff)]
        /\ last' = Call("delete", path, model_name, <<>>, disk[path],
                        Outcome(disk[path], eff))
        /\ UNCHANGED <<pc, req, local, lastWriter>>

Next ==
    \/ \E n \in Names, c \in Configs, f \in FileNames : CreateModel(n, c, f)
    \/ \E p \in Paths, n \in Names, c \in Configs : UpdateModel(p, n, c)
    \/ \E p \in Paths, n \in Names : DeleteModel(p, n)

Spec == Init /\ [][Next]_vars

(***************************************************************************)
(* The same calls on a directory that already holds documents, written by  *)
(* hand or by another tool: extra top-level keys, a document without a     *)
(* `models` key, an empty `models` list, an empty file, repeated names.    *)
(***************************************************************************)
Dir(f1, f2, f3) ==
    [p \in Paths |->
        IF p = DefaultFileName("m1") THEN f1
        ELSE IF p = DefaultFileName("m2") THEN f2
        ELSE f3]

SeedDirs ==
    { EmptyDir,
      Dir(MappingFile(<< <<"version", "2">>,
                         <<"models", << << <<"name", "m1">>, <<"a", "1">> >>,
                                        << <<"name", "m2">> >> >> >> >>),
          NoFile, NoFile),
      Dir(MappingFile(<< <<"models", <<>> >> >>),
          MappingFile(<< <<"version", "2">> >>),
          NullFile),
      Dir(NoFile, NoFile,
          MappingFile(<< <<"models", << << <<"name", "m1">> >>,
                                        << <<"name", "m1">>, <<"a", "1">> >>,
                                        << <<"name", "m2">> >> >> >>,
                         <<"version", "2">> >>)) }

InitDir ==
    /\ disk \in SeedDirs
    /\ last = NoCall
    /\ IdleCallers

SpecDir == InitDir /\ [][Next]_vars

(***************************************************************************)
(* Two callers on the same directory, no lock: a call is a load step       *)
(* (load_yaml into the caller's own mapping) followed later by a step that *)
(* runs the rest of the handler on that mapping and writes or unlinks.     *)
(***************************************************************************)
ConcDirs ==
    { EmptyDir,
      Dir(NoFile, NoFile,
          MappingFile(<< <<"models", << << <<"name", "m1">> >> >> >> >>)),
      Dir(NoFile, NoFile,
          MappingFile(<< <<"models", << << <<"name", "m1">> >>,
                                        << <<"name", "m2">> >> >> >> >>)) }

InitConc ==
    /\ disk \in ConcDirs
    /\ last = NoCall
    /\ IdleCallers

\* a handler that reads the document again at the moment it writes
Loaded_fresh(c) == load_yaml(disk[req[c].path])

\* the mapping the rest of the handler works on: the caller's own copy
Loaded(c) == local[c]

Begin(c, op, path, model_name, config) ==
    /\ pc[c] = "idle"
    /\ pc' = [pc EXCEPT ![c] = "loaded"]
    /\ local' = [local EXCEPT ![c] = load_yaml(disk[path])]
    /\ req' = [req EXCEPT ![c] = Call(op, path, model_name, config,
                                      disk[path], Ok)]
    /\ UNCHANGED <<disk, last, lastWriter>>

BeginCreate(c, model_name, config, file_name) ==
    Begin(c, "create", ResolvePath(model_name, file_name), model_name, config)

BeginUpdate(c, path, model_name, new_config) ==
    Begin(c, "update", path, model_name, new_config)

BeginDelete(c, path, model_name) ==
    Begin(c, "delete", path, model_name, <<>>)

Finish(c, eff) ==
    LET path == req[c].path
    IN  /\ pc' = [pc EXCEPT ![c] = "done"]
        /\ disk' = [disk EXCEPT ![path] = Written(disk[path], eff)]
        /\ req' = [req EXCEPT ![c].outcome = Outcome(disk[path], eff)]
        /\ lastWriter' = IF eff.action = "none" THEN lastWriter ELSE c
        /\ UNCHANGED <<last, local>>

FinishCreate(c) ==
    /\ pc[c] = "loaded" /\ req[c].op = "create"
    /\ Finish(c, create_model(Loaded(c), req[c].name, req[c].config))

FinishUpdate(c) ==
    /\ pc[c] = "loaded" /\ req[c].op = "update"
    /\ Finish(c, update_model(Loaded(c), req[c].name, req[c].config))

FinishDelete(c) ==
    /\ pc[c] = "loaded" /\ req[c].op = "delete"
    /\ Finish(c, delete_model(Loaded(c), req[c].name))

NextConc ==
    \/ \E c \in Callers, n \in Names, k \in Configs, f \in FileNames :
           BeginCreate(c, n, k, f)
    \/ \E c \in Callers, p \in Paths, n \in Names, k \in Configs :
           BeginUpdate(c, p, n, k)
    \/ \E c \in Callers, p \in Paths, n \in Names : BeginDelete(c, p, n)
    \/ \E c \in Callers : FinishCreate(c)
    \/ \E c \in Callers : FinishUpdate(c)
    \/ \E c \in Callers : FinishDelete(c)

SpecConc == InitConc /\ [][NextConc]_vars

(***************************************************************************)
(* Vocabulary of the properties                                            *)
(***************************************************************************)
\* the error kinds of the repository, as the ValueErrors the code raises
DuplicateModelError == {AlreadyExists}

NotFoundError == {NoModelsFound, ModelNotFound}

Exists(file) == file.kind # "absent"

\* the document has a `models` collection
HasModels(file) == HasKey(load_yaml(file), "models")

NameOf(record) == Get(record, "name")

\* the last call, its target file before and after
Before == last.before

After == disk[last.path]

Succeeded(op) == last.op = op /\ last.outcome = Ok

\* top-level keys other than `models`, with their values, in order
OtherKeys(file) ==
    SelectSeq(load_yaml(file), LAMBDA kv : kv[1] # "models")

\* the records not named model_name, in their order
Surviving(models, model_name) ==
    SelectSeq(models, LAMBDA m : NameOf(m) # model_name)

\* keys of an ordered mapping
Keys(d) == {d[i][1] : i \in 1..Len(d)}

(***************************************************************************)
(* C1: starting from an empty directory, after any sequence of             *)
(* create_model, update_model and delete_model calls, no document on disk  *)
(* holds two records with equal `name` values.                             *)
(***************************************************************************)
UniqueNames ==
    \A p \in Paths :
        \A i, j \in 1..Len(Records(disk[p])) :
            i # j => NameOf(Records(disk[p])[i]) # NameOf(Records(disk[p])[j])

(***************************************************************************)
(* C2: the record written by a successful create_model or update_model has *)
(* its `name` equal to the explicit name argument, whatever `name` key the *)
(* config mapping carries.                                                 *)
(***************************************************************************)
ExplicitNameWins ==
    /\ Succeeded("create") =>
           NameOf(Records(After)[Len(Records(After))]) = last.name
    /\ Succeeded("update") =>
           NameOf(Records(After)[FirstNamed(Records(Before), last.name)])
               = last.name

(***************************************************************************)
(* C3: a create_model whose name is the `name` of a record already in the  *)
(* target document fails with DuplicateModelError and leaves the document  *)
(* (records, order, every other top-level key) exactly as it was.          *)
(***************************************************************************)
DuplicateCreateRejected ==
    (last.op = "create" /\ Named(Records(Before), last.name)) =>
        /\ last.outcome \in DuplicateModelError
        /\ After = Before

DuplicateCreateSeen ==
    /\ last.op = "create"
    /\ Named(Records(Before), last.name)
    /\ Len(Records(Before)) >= 2
    /\ OtherKeys(Before) # <<>>
    /\ last.outcome \in DuplicateModelError

(***************************************************************************)
(* C4: delete_model on a document that has a `models` collection holding   *)
(* no record of that name fails with NotFoundError and leaves the file as  *)
(* it was, neither rewritten differently nor removed.                      *)
(***************************************************************************)
DeleteAbsentNameFails ==
    (last.op = "delete" /\ HasModels(Before)
        /\ ~Named(Records(Before), last.name)) =>
        /\ last.outcome \in NotFoundError
        /\ After = Before

(***************************************************************************)
(* C5: update_model fails with NotFoundError when the document is missing, *)
(* has no `models` collection, or has no record of that name; nothing is   *)
(* written, the document is as before and a missing file stays missing.    *)
(***************************************************************************)
UpdateNotFound ==
    (last.op = "update"
        /\ (~HasModels(Before) \/ ~Named(Records(Before), last.name))) =>
        /\ last.outcome \in NotFoundError
        /\ After = Before

UpdateNotFoundSeen ==
    /\ last.op = "update"
    /\ Exists(Before)
    /\ ~HasModels(Before)
    /\ OtherKeys(Before) # <<>>
    /\ last.outcome = NoModelsFound
    /\ \E p \in Paths : ~Exists(disk[p])

(***************************************************************************)
(* C6: a successful update_model replaces the first record of that name in *)
(* place by exactly {name: name} plus the keys of new_fields; the number   *)
(* of records, every other record and every other top-level key stay.      *)
(***************************************************************************)
UpdateReplacesInPlace ==
    Succeeded("update") =>
        LET old == Records(Before)
            new == Records(After)
            i   == FirstNamed(old, last.name)
        IN  /\ Len(new) = Len(old)
            /\ new[i][1] = <<"name", last.name>>
            /\ Keys(new[i]) = {"name"} \cup Keys(last.config)
            /\ \A k \in Keys(last.config) \ {"name"} :
                   Item(new[i], k) = Item(last.config, k)
            /\ \A j \in 1..Len(old) : j # i => new[j] = old[j]
            /\ OtherKeys(After) = OtherKeys(Before)

(***************************************************************************)
(* C7: when delete_model removes the last remaining record(s) of a         *)
(* document, the file is removed: the path does not exist, load of it      *)
(* gives the empty mapping and it is no longer listed.                     *)
(***************************************************************************)
RemovesLastRecords ==
    /\ last.op = "delete"
    /\ Records(Before) # <<>>
    /\ \A i \in 1..Len(Records(Before)) :
           NameOf(Records(Before)[i]) = last.name

DeleteEmptiesFile ==
    RemovesLastRecords =>
        /\ last.outcome = Ok
        /\ ~Exists(After)
        /\ load_yaml(After) = <<>>
        /\ last.path \notin get_all_yaml_files(disk)

DeleteEmptiesFileSeen ==
    /\ RemovesLastRecords
    /\ last.outcome = Ok
    /\ ~Exists(After)
    /\ \E p \in Paths : p \in get_all_yaml_files(disk)

(***************************************************************************)
(* C8: delete_model on a document with at least one record of that name    *)
(* and at least one other removes every record of that name and saves the  *)
(* others unchanged, in order, with every other top-level key unchanged.   *)
(***************************************************************************)
RemovesSomeRecords ==
    /\ last.op = "delete"
    /\ Named(Records(Before), last.name)
    /\ \E i \in 1..Len(Records(Before)) :
           NameOf(Records(Before)[i]) # last.name

DeleteKeepsOthers ==
    RemovesSomeRecords =>
        /\ last.outcome = Ok
        /\ After.kind = "mapping"
        /\ ~Named(Records(After), last.name)
        /\ Records(After) = Surviving(Records(Before), last.name)
        /\ OtherKeys(After) = OtherKeys(Before)
        /\ [i \in 1..Len(After.data) |-> After.data[i][1]]
               = [i \in 1..Len(Before.data) |-> Before.data[i][1]]

DeleteKeepsOthersSeen ==
    /\ RemovesSomeRecords
    /\ last.outcome = Ok
    /\ Len(Records(Before)) - Len(Records(After)) >= 2
    /\ OtherKeys(After) # <<>>

(***************************************************************************)
(* C9: load and save are not atomic; with two callers interleaved on one   *)
(* document, both calls can return success while the document reflects     *)
(* only the later writer's result (last write wins).                       *)
(* As a law of every interleaving: what the most recent writer left on     *)
(* disk is computed from the mapping it loaded, whatever was written to    *)
(* the path between its load and its write.                                *)
(***************************************************************************)
EffectOf(r, config) ==
    CASE r.op = "create" -> create_model(config, r.name, r.config)
      [] r.op = "update" -> update_model(config, r.name, r.config)
      [] r.op = "delete" -> delete_model(config, r.name)
      [] OTHER           -> Raise(Ok)

LastWriteWins ==
    \A c \in Callers :
        (lastWriter = c /\ pc[c] = "done") =>
            disk[req[c].path]
                = Written(req[c].before, EffectOf(req[c], load_yaml(req[c].before)))

\* both create calls returned success, on the same document and under
\* different names, and the document holds only the later writer's record
LostUpdate ==
    \E c, d \in Callers :
        /\ c # d
        /\ pc[c] = "done" /\ pc[d] = "done"
        /\ req[c].op = "create" /\ req[d].op = "create"
        /\ req[c].outcome = Ok /\ req[d].outcome = Ok
        /\ req[c].path = req[d].path
        /\ req[c].name # req[d].name
        /\ ~HasKey(req[c].config, "name") /\ ~HasKey(req[d].config, "name")
        /\ lastWriter = d
        /\ Named(Records(disk[req[d].path]), req[d].name)
        /\ ~Named(Records(disk[req[c].path]), req[c].name)

(***************************************************************************)
(* C10: starting from an empty directory, with calls made one at a time, a *)
(* file exists on disk iff it holds at least one record: no file without a *)
(* `models` collection or with an empty one is left, and a call that fails *)
(* creates no file.                                                        *)
(***************************************************************************)
FileIffRecords ==
    /\ \A p \in Paths :
           Exists(disk[p]) <=>
               (HasModels(disk[p]) /\ Len(Records(disk[p])) >= 1)
    /\ last.outcome # Ok =>
           \A p \in Paths : Exists(disk[p]) => (p # last.path \/ Exists(Before))

FileIffRecordsSeen ==
    /\ last.op = "delete"
    /\ last.outcome = Ok
    /\ Exists(Before)
    /\ ~Exists(After)
    /\ \E p \in Paths : Exists(disk[p])

====
